---- MODULE Spec2Model ----
(***************************************************************************)
(* AWSIoTCore_fdw: a Multicorn foreign data wrapper over the AWS IoT Core  *)
(* registry.  The model follows class AIC_fdw of AWSIoTCore_fdw.py: one    *)
(* connector instance (table_type fixed by the constructor) and one        *)
(* operation per behaviour, either a scan (execute, a generator that is    *)
(* stepped list call by list call and row by row) or a mutation (insert,   *)
(* update, delete).  log_to_postgres at ERROR raises to the host; at       *)
(* WARNING it returns.                                                     *)
(*                                                                         *)
(* Python strings are sequences of one-character strings, so that lower(), *)
(* count(), endswith() and slicing are computed.  Python's None is the     *)
(* one-element sequence <<"None">>, which no string equals.  dict objects  *)
(* (rows, values, call arguments) are functions whose DOMAIN is the key    *)
(* set, so that an absent key and a key holding None differ.               *)
(***************************************************************************)
EXTENDS Integers, Sequences, FiniteSets, TLC

VARIABLES
    table_type,         \* self.table_type
    quals,              \* the predicate set of the running query
    columns,            \* the requested-column set of the running query
    pages,              \* the registry's answer to the primary list: a chain of pages
    pc,                 \* position of the operation
    thing_type_name,    \* local of _execute_thing / _execute_thing_type
    thing_group_prefix, \* local of _execute_thing_group
    nextToken,          \* local of the fetch loop
    response,           \* items of the page being iterated
    idx,                \* position of the for loop in response
    rows,               \* rows yielded so far
    listCalls,          \* primary list calls issued so far
    groupCalls,         \* list_thing_groups_for_thing calls issued so far
    shadowCalls,        \* get_thing_shadow calls issued so far
    shadowLog,          \* outcome of each get_thing_shadow call
    writeCalls,         \* create_thing / update_thing_shadow / delete_thing calls
    faults,             \* backend failures injected so far
    error,              \* what was raised to the host, if anything
    op,                 \* the operation invoked and its arguments
    ret                 \* <<v>> once the operation returned v

vars == <<table_type, quals, columns, pages, pc, thing_type_name,
          thing_group_prefix, nextToken, response, idx, rows, listCalls,
          groupCalls, shadowCalls, shadowLog, writeCalls, faults, error, op, ret>>

----
\* Bounds of the model
MaxQuals == 2       \* predicates per query
MaxPages == 2       \* pages of the primary list
MaxPageLen == 2     \* items per page
MaxGroupPages == 2  \* pages of one thing's group-membership list
MaxFaults == 1      \* backend failures per operation

\* self.MAX_RESULTS
MAX_RESULTS == 250

\* self.LIKE_WILDCARD
LIKE_WILDCARD == "%"

None == <<"None">>

NoError == [src |-> "none", kind |-> "none", call |-> 0]

----
\* Python string and dict primitives

UpperLetters == <<"A","B","C","D","E","F","G","H","I","J","K","L","M",
                  "N","O","P","Q","R","S","T","U","V","W","X","Y","Z">>
LowerLetters == <<"a","b","c","d","e","f","g","h","i","j","k","l","m",
                  "n","o","p","q","r","s","t","u","v","w","x","y","z">>

LowerOf ==
    [c \in {UpperLetters[i] : i \in DOMAIN UpperLetters} |->
        LowerLetters[CHOOSE i \in DOMAIN UpperLetters : UpperLetters[i] = c]]

LowerChar(c) == IF c \in DOMAIN LowerOf THEN LowerOf[c] ELSE c

\* str.lower()
Lower(s) == [i \in DOMAIN s |-> LowerChar(s[i])]

\* str.count(ch) for a one-character ch
Count(s, ch) == Cardinality({i \in DOMAIN s : s[i] = ch})

\* str.endswith(ch) for a one-character ch
EndsWith(s, ch) == Len(s) > 0 /\ s[Len(s)] = ch

\* s[:-1]
DropLast(s) == IF Len(s) = 0 THEN s ELSE SubSeq(s, 1, Len(s) - 1)

\* truth value of a str-or-None
Truthy(v) == v # None /\ v # <<>>

\* dict.get(k)
Get(d, k) == IF k \in DOMAIN d THEN d[k] ELSE None

\* dict.update({k: v})
Put(d, k, v) == [x \in DOMAIN d \cup {k} |-> IF x = k THEN v ELSE d[x]]

EmptyDict == [x \in {} |-> None]

\* json.dumps of a value the model keeps opaque
Dumps(v) == IF v = None THEN <<"null">> ELSE <<"{">> \o v \o <<"}">>

RECURSIVE Concat(_)
Concat(ss) == IF ss = <<>> THEN <<>> ELSE Head(ss) \o Concat(Tail(ss))

\* json.dumps of a list
DumpsList(l) == <<"[">> \o Concat(l) \o <<"]">>

----
\* Names

thing == <<"t","h","i","n","g">>
thing_type == <<"t","h","i","n","g","-","t","y","p","e">>
thing_group == <<"t","h","i","n","g","-","g","r","o","u","p">>

f_thing_type_name == <<"t","h","i","n","g","_","t","y","p","e","_","n","a","m","e">>
f_Thing_Type_Name == <<"T","h","i","n","g","_","T","y","p","e","_","N","a","m","e">>
f_thing_group_name == <<"t","h","i","n","g","_","g","r","o","u","p","_","n","a","m","e">>

----
\* Predicate extractor

\* the loop over quals keeps the value of the last predicate that matches
RECURSIVE ExtractThingTypeNameFrom(_, _)
ExtractThingTypeNameFrom(qs, acc) ==
    IF qs = <<>> THEN acc
    ELSE LET qual == Head(qs)
         IN ExtractThingTypeNameFrom(Tail(qs),
                IF /\ Lower(qual.field_name) = f_thing_type_name
                   /\ qual.operator = "="
                THEN qual.value
                ELSE acc)

\* variant: the loop stops at the first predicate that matches
RECURSIVE ExtractThingTypeNameFirst(_)
ExtractThingTypeNameFirst(qs) ==
    IF qs = <<>> THEN None
    ELSE IF /\ Lower(Head(qs).field_name) = f_thing_type_name
            /\ Head(qs).operator = "="
         THEN Head(qs).value
         ELSE ExtractThingTypeNameFirst(Tail(qs))

ExtractThingTypeName(qs) == ExtractThingTypeNameFrom(qs, None)

RECURSIVE ExtractThingGroupPrefixFrom(_, _)
ExtractThingGroupPrefixFrom(qs, acc) ==
    IF qs = <<>> THEN acc
    ELSE LET qual == Head(qs)
         IN ExtractThingGroupPrefixFrom(Tail(qs),
                IF Lower(qual.field_name) = f_thing_group_name
                THEN IF qual.operator = "="
                     THEN qual.value
                     ELSE IF /\ qual.operator = "~~"
                             /\ Count(qual.field_name, LIKE_WILDCARD) = 1
                             /\ EndsWith(qual.field_name, LIKE_WILDCARD)
                          THEN DropLast(qual.value)
                          ELSE acc
                ELSE acc)

ExtractThingGroupPrefix(qs) == ExtractThingGroupPrefixFrom(qs, None)

\* call_args of one primary list call
CallArgs(token, filterKey, filter) ==
    LET a0 == Put(EmptyDict, "maxResults", MAX_RESULTS)
        a1 == IF Truthy(token) THEN Put(a0, "nextToken", token) ELSE a0
    IN IF Truthy(filter) THEN Put(a1, filterKey, filter) ELSE a1

\* variant: the loop stops after every page
AfterPageStop(token) == "done"

\* `if not nextToken: break` at the end of a page
AfterPage(token) == IF Truthy(token) THEN "list" ELSE "done"

\* variant: a failed list call is tried again
OnListErrorRetry(kind) == "list"

\* both except branches of a primary list log at ERROR, which raises to the host
OnListError(kind) == "error"

----
\* The registry

Digit == <<"1","2","3","4","5","6","7","8","9">>

\* continuation cursor that leads to page k
Token(k) == <<"c", Digit[k]>>

\* identity of item j of page k (identities are unique in the registry)
ItemName(k, j) == <<"n", Digit[k], Digit[j]>>

PageChains ==
    UNION {[1..n -> 0..MaxPageLen] : n \in 1..MaxPages}

PagesOf(lens) == [k \in DOMAIN lens |-> [j \in 1..lens[k] |-> ItemName(k, j)]]

\* the page a list call is answered with, and the cursor that comes with it
BackendList(args) ==
    LET k == IF "nextToken" \in DOMAIN args
             THEN CHOOSE i \in DOMAIN pages : Token(i) = args["nextToken"]
             ELSE 1
    IN [items |-> pages[k],
        nextToken |-> IF k < Len(pages) THEN Token(k + 1) ELSE None]

\* fields of a registry item
ItemArn(name) == <<"a","r","n",":">> \o name
ItemTypeName(name) == <<"t","y">>
ItemVersion(name) == <<"1">>
ItemAttributes(name) == <<"a","t","t","r">>
ItemProperties(name) == <<"p","r","o","p">>
ItemMetadata(name) == <<"m","e","t","a">>

\* page p of the group memberships of a thing
GroupPage(name, p) == <<"g", Digit[p]>>

\* the shadow document of a thing
ShadowDoc(name) == <<"s","h",":">> \o name

\* failures the registry may still produce
FaultKinds == IF faults < MaxFaults THEN {"ClientError", "Exception"} ELSE {}

----
\* Column-gated enrichment

\* self._row_id_column
RowIdColumn(tt) ==
    IF Lower(tt) = thing THEN "thing_name"
    ELSE IF Lower(tt) = thing_type THEN "thing_type_name"
    ELSE "thing_group_name"

\* `'thing_groups' in columns`
NeedsGroups(cols) == "thing_groups" \in cols

\* variant: the shadow is fetched for every row
NeedsShadowAlways(cols) == TRUE

\* `'thing_shadow_data' in columns`
NeedsShadow(cols) == "thing_shadow_data" \in cols

Skip == [kind |-> "skip", at |-> 0]

GroupCallArgs(name, p) ==
    LET a == Put(Put(EmptyDict, "thingName", name), "maxResults", MAX_RESULTS)
    IN IF p > 1 THEN Put(a, "nextToken", Token(p)) ELSE a

\* _thing_groups_for_thing: the sub-loop drains MaxGroupPages pages, or stops at
\* the call outcome.at that fails with outcome.kind
ThingGroupsForThing(name, outcome) ==
    LET n == IF outcome.kind = "ok" THEN MaxGroupPages ELSE outcome.at
    IN [calls |-> [p \in 1..n |-> GroupCallArgs(name, p)],
        value |-> IF outcome.kind = "ok"
                  THEN DumpsList([p \in 1..MaxGroupPages |-> GroupPage(name, p)])
                  ELSE None,
        raised |-> outcome.kind = "Exception"]

\* variant: a ClientError of get_thing_shadow is logged at ERROR
ThingShadowDataFatal(name, outcome) ==
    [value |-> IF outcome = "payload" THEN ShadowDoc(name) ELSE None,
     raised |-> outcome \in {"ClientError", "Exception"}]

\* _thing_shadow_data: outcome is what get_thing_shadow did
ThingShadowData(name, outcome) ==
    [value |-> IF outcome = "payload" THEN ShadowDoc(name) ELSE None,
     raised |-> outcome = "Exception"]

\* the row of one thing
ThingRow(tt, name, cols, groupsValue, shadowValue) ==
    LET r0 == Put(EmptyDict, RowIdColumn(tt), name)
        r1 == IF NeedsGroups(cols) THEN Put(r0, "thing_groups", groupsValue) ELSE r0
        r2 == IF "thing_type_name" \in cols
              THEN Put(r1, "thing_type_name", ItemTypeName(name)) ELSE r1
        r3 == IF "thing_arn" \in cols THEN Put(r2, "thing_arn", ItemArn(name)) ELSE r2
        r4 == IF "thing_version" \in cols
              THEN Put(r3, "thing_version", ItemVersion(name)) ELSE r3
        r5 == IF "thing_attributes" \in cols
              THEN Put(r4, "thing_attributes", Dumps(ItemAttributes(name))) ELSE r4
    IN IF NeedsShadow(cols) THEN Put(r5, "thing_shadow_data", shadowValue) ELSE r5

\* the row of one thing type
ThingTypeRow(tt, name, cols) ==
    LET r0 == Put(EmptyDict, RowIdColumn(tt), name)
        r1 == IF "thing_type_arn" \in cols
              THEN Put(r0, "thing_type_arn", ItemArn(name)) ELSE r0
        r2 == IF "thing_type_properties" \in cols
              THEN Put(r1, "thing_type_properties", Dumps(ItemProperties(name))) ELSE r1
    IN IF "thing_type_metadata" \in cols
       THEN Put(r2, "thing_type_metadata", Dumps(ItemMetadata(name))) ELSE r2

\* the row of one thing group
ThingGroupRow(tt, name, cols) ==
    LET r0 == Put(EmptyDict, RowIdColumn(tt), name)
    IN IF "thing_group_arn" \in cols
       THEN Put(r0, "thing_group_arn", ItemArn(name)) ELSE r0

----
\* Dispatch on self.table_type

ExecuteTarget(tt) ==
    IF Lower(tt) = thing THEN "_execute_thing"
    ELSE IF Lower(tt) = thing_type THEN "_execute_thing_type"
    ELSE IF Lower(tt) = thing_group THEN "_execute_thing_group"
    ELSE "none"

InsertTarget(tt) ==
    IF Lower(tt) = thing THEN "_insert_thing"
    ELSE IF Lower(tt) = thing_type THEN "_insert_thing_type"
    ELSE "none"

UpdateTarget(tt) ==
    IF Lower(tt) = thing THEN "_update_thing"
    ELSE IF Lower(tt) = thing_type THEN "_update_thing_type"
    ELSE "none"

\* variant: delete has no branch for the thing-type kind
DeleteTargetThingOnly(tt) ==
    IF Lower(tt) = thing THEN "_delete_thing" ELSE "none"

DeleteTarget(tt) ==
    IF Lower(tt) = thing THEN "_delete_thing"
    ELSE IF Lower(tt) = thing_type THEN "_delete_thing_type"
    ELSE "none"

----
\* Inputs

TableTypes == {thing, thing_type, thing_group}

QualFields == {f_thing_type_name, f_thing_group_name}
QualOperators == {"=", "~~"}
QualValues == {<<>>, <<"a","%">>, <<"%","a">>, <<"%","a","%">>}

\* every field, operator and value, and one predicate that names its column in
\* mixed case
Quals ==
    {[field_name |-> f, operator |-> o, value |-> v] :
        f \in QualFields, o \in QualOperators, v \in QualValues}
    \cup {[field_name |-> f_Thing_Type_Name, operator |-> "=", value |-> <<"b">>]}

QualSeqs == UNION {[1..n -> Quals] : n \in 0..MaxQuals}

IdentityColumns == {"thing_name", "thing_type_name", "thing_group_name"}

ColumnSets ==
    { {},
      {"thing_name"},
      {"thing_name", "thing_groups"},
      {"thing_name", "thing_shadow_data"},
      {"thing_name", "thing_groups", "thing_type_name", "thing_arn",
       "thing_version", "thing_attributes", "thing_shadow_data"},
      {"thing_type_name", "thing_type_arn", "thing_type_properties",
       "thing_type_metadata"},
      {"thing_group_name", "thing_group_arn"} }

\* queries that vary the predicate set, over a two-page registry
PushdownInputs ==
    {[quals |-> q, columns |-> IdentityColumns, pages |-> PagesOf(<<1, 1>>)] :
        q \in QualSeqs}

\* queries that vary the requested columns and the registry's pages
EnrichmentInputs ==
    {[quals |-> <<>>, columns |-> c, pages |-> PagesOf(l)] :
        c \in ColumnSets, l \in PageChains}

ScanInputs == PushdownInputs \cup EnrichmentInputs

n1 == <<"n","1">>
n2 == <<"n","2">>

InsertDict == [k \in {"thing_name", "thing_type_name", "thing_type"} |->
                 IF k = "thing_name" THEN n1
                 ELSE IF k = "thing_type_name" THEN <<"t","y">>
                 ELSE <<"t","x">>]

UpdateDict == [k \in {"thing_name", "thing_arn", "thing_shadow_data"} |->
                 IF k = "thing_name" THEN n1
                 ELSE IF k = "thing_arn" THEN ItemArn(n1)
                 ELSE <<"d","o","c">>]

Restrict(d, ks) == [k \in ks |-> d[k]]

\* the identity is supplied by the caller
InsertValues == {Restrict(InsertDict, ks) :
                    ks \in {k \in SUBSET DOMAIN InsertDict : "thing_name" \in k}}
UpdateValues == {Restrict(UpdateDict, ks) : ks \in SUBSET DOMAIN UpdateDict}
RowIds == {n1, n2}

\* what update_thing_shadow hands back for a submitted document
AcceptedDoc(doc) == doc \o <<"+","v">>

----
\* State after __init__

NoOp == [name |-> "none", values |-> EmptyDict, rowid |-> None]

Init ==
    /\ table_type \in TableTypes
    /\ quals = <<>>
    /\ columns = {}
    /\ pages = <<>>
    /\ pc = "idle"
    /\ thing_type_name = None
    /\ thing_group_prefix = None
    /\ nextToken = None
    /\ response = <<>>
    /\ idx = 0
    /\ rows = <<>>
    /\ listCalls = <<>>
    /\ groupCalls = <<>>
    /\ shadowCalls = <<>>
    /\ shadowLog = <<>>
    /\ writeCalls = <<>>
    /\ faults = 0
    /\ error = NoError
    /\ op = NoOp
    /\ ret = <<>>

scanLocals == <<thing_type_name, thing_group_prefix, nextToken, response, idx>>
scanLogs == <<rows, listCalls, groupCalls, shadowCalls, shadowLog>>
query == <<quals, columns, pages>>

----
\* execute: the generator up to its first list call

StartScan(in) ==
    /\ quals' = in.quals
    /\ columns' = in.columns
    /\ pages' = in.pages
    /\ nextToken' = None
    /\ pc' = "list"
    /\ op' = [NoOp EXCEPT !.name = "execute"]
    /\ UNCHANGED <<table_type, response, idx, scanLogs, writeCalls, faults, error, ret>>

ExecuteThing ==
    /\ pc = "idle"
    /\ ExecuteTarget(table_type) = "_execute_thing"
    /\ \E in \in ScanInputs :
        /\ thing_type_name' = ExtractThingTypeName(in.quals)
        /\ UNCHANGED thing_group_prefix
        /\ StartScan(in)

ExecuteThingType ==
    /\ pc = "idle"
    /\ ExecuteTarget(table_type) = "_execute_thing_type"
    /\ \E in \in ScanInputs :
        /\ thing_type_name' = ExtractThingTypeName(in.quals)
        /\ UNCHANGED thing_group_prefix
        /\ StartScan(in)

ExecuteThingGroup ==
    /\ pc = "idle"
    /\ ExecuteTarget(table_type) = "_execute_thing_group"
    /\ \E in \in ScanInputs :
        /\ thing_group_prefix' = ExtractThingGroupPrefix(in.quals)
        /\ UNCHANGED thing_type_name
        /\ StartScan(in)

----
\* The paginated fetch loop: one primary list call

\* the call succeeded: take the cursor, then iterate the page
ListOk(api, call_args) ==
    LET resp == BackendList(call_args)
    IN /\ listCalls' = Append(listCalls, [api |-> api, args |-> call_args])
       /\ nextToken' = resp.nextToken
       /\ response' = resp.items
       /\ idx' = 1
       /\ pc' = IF resp.items = <<>> THEN AfterPage(resp.nextToken) ELSE "rows"
       /\ UNCHANGED <<faults, error>>

\* the call failed: ClientError or any other exception
ListFailed(api, call_args, kind) ==
    /\ listCalls' = Append(listCalls, [api |-> api, args |-> call_args])
    /\ faults' = faults + 1
    /\ error' = [src |-> api, kind |-> kind, call |-> Len(listCalls) + 1]
    /\ pc' = OnListError(kind)
    /\ UNCHANGED <<nextToken, response, idx>>

ListCall(api, call_args) ==
    /\ \/ ListOk(api, call_args)
       \/ \E kind \in FaultKinds : ListFailed(api, call_args, kind)
    /\ UNCHANGED <<table_type, query, thing_type_name, thing_group_prefix, rows,
                   groupCalls, shadowCalls, shadowLog, writeCalls, op, ret>>

ListThings ==
    /\ pc = "list"
    /\ ExecuteTarget(table_type) = "_execute_thing"
    /\ ListCall("list_things", CallArgs(nextToken, "thingTypeName", thing_type_name))

ListThingTypes ==
    /\ pc = "list"
    /\ ExecuteTarget(table_type) = "_execute_thing_type"
    /\ ListCall("list_thing_types",
                CallArgs(nextToken, "thingTypeName", thing_type_name))

ListThingGroups ==
    /\ pc = "list"
    /\ ExecuteTarget(table_type) = "_execute_thing_group"
    /\ ListCall("list_thing_groups",
                CallArgs(nextToken, "namePrefixFilter", thing_group_prefix))

----
\* The paginated fetch loop: one iteration of the for loop over the page

\* after the yield: the next item, or the end of the page
Advance ==
    /\ idx' = idx + 1
    /\ pc' = IF idx < Len(response) THEN "rows" ELSE AfterPage(nextToken)

GroupOutcomes ==
    {[kind |-> "ok", at |-> 0]}
    \cup {[kind |-> k, at |-> p] : k \in FaultKinds, p \in 1..MaxGroupPages}

ShadowOutcomes(spent) ==
    {"payload"}
    \cup (IF faults + spent < MaxFaults
          THEN {"nopayload", "ClientError", "Exception"} ELSE {})

YieldThingRow ==
    /\ pc = "rows"
    /\ ExecuteTarget(table_type) = "_execute_thing"
    /\ LET name == response[idx]
       IN \E g \in (IF NeedsGroups(columns) THEN GroupOutcomes ELSE {Skip}) :
          LET gr == IF g = Skip
                    THEN [calls |-> <<>>, value |-> None, raised |-> FALSE]
                    ELSE ThingGroupsForThing(name, g)
              gcost == IF g.kind \in {"ClientError", "Exception"} THEN 1 ELSE 0
          IN \E s \in (IF gr.raised \/ ~NeedsShadow(columns)
                       THEN {"skip"} ELSE ShadowOutcomes(gcost)) :
             LET sr == IF s = "skip"
                       THEN [value |-> None, raised |-> FALSE]
                       ELSE ThingShadowData(name, s)
                 scost == IF s \in {"nopayload", "ClientError", "Exception"}
                          THEN 1 ELSE 0
             IN /\ groupCalls' = groupCalls \o gr.calls
                /\ shadowCalls' = IF s = "skip" THEN shadowCalls
                                  ELSE Append(shadowCalls, name)
                /\ shadowLog' = IF s = "skip" THEN shadowLog
                                ELSE Append(shadowLog, [thing |-> name, outcome |-> s])
                /\ faults' = faults + gcost + scost
                /\ IF gr.raised \/ sr.raised
                   THEN /\ pc' = "error"
                        /\ error' = [src |-> IF gr.raised
                                             THEN "list_thing_groups_for_thing"
                                             ELSE "get_thing_shadow",
                                     kind |-> "Exception",
                                     call |-> Len(listCalls)]
                        /\ UNCHANGED <<rows, idx>>
                   ELSE /\ rows' = Append(rows, ThingRow(table_type, name, columns,
                                                         gr.value, sr.value))
                        /\ Advance
                        /\ UNCHANGED error
    /\ UNCHANGED <<table_type, query, thing_type_name, thing_group_prefix, nextToken,
                   response, listCalls, writeCalls, op, ret>>

\* the loop variable of the for loop is the local that holds the filter
YieldThingTypeRow ==
    /\ pc = "rows"
    /\ ExecuteTarget(table_type) = "_execute_thing_type"
    /\ thing_type_name' = response[idx]
    /\ rows' = Append(rows, ThingTypeRow(table_type, response[idx], columns))
    /\ Advance
    /\ UNCHANGED <<table_type, query, thing_group_prefix, nextToken, response,
                   listCalls, groupCalls, shadowCalls, shadowLog, writeCalls,
                   faults, error, op, ret>>

YieldThingGroupRow ==
    /\ pc = "rows"
    /\ ExecuteTarget(table_type) = "_execute_thing_group"
    /\ rows' = Append(rows, ThingGroupRow(table_type, response[idx], columns))
    /\ Advance
    /\ UNCHANGED <<table_type, query, thing_type_name, thing_group_prefix, nextToken,
                   response, listCalls, groupCalls, shadowCalls, shadowLog,
                   writeCalls, faults, error, op, ret>>

----
\* Mutation adapters

\* a mutation leaves everything of a scan alone
NoScan == UNCHANGED <<table_type, query, scanLocals, scanLogs>>

Returned(name, values, rowid, v) ==
    /\ pc' = "returned"
    /\ op' = [name |-> name, values |-> values, rowid |-> rowid]
    /\ ret' = <<v>>
    /\ UNCHANGED <<faults, error>>

\* an exception reaches the host: log_to_postgres at ERROR, or NotImplementedError
Raised(name, values, rowid, src, kind) ==
    /\ pc' = "error"
    /\ op' = [name |-> name, values |-> values, rowid |-> rowid]
    /\ error' = [src |-> src, kind |-> kind, call |-> 0]
    /\ UNCHANGED ret

\* the arguments of the create_thing call of _insert_thing
CreateThingArgs(values) ==
    LET new_thing == Get(values, "thing_name")
        new_thing_type == Get(values, "thing_type")
    IN IF Truthy(new_thing_type)
       THEN Put(Put(EmptyDict, "thingName", new_thing), "thingTypeName", new_thing_type)
       ELSE Put(EmptyDict, "thingName", new_thing)

InsertThing ==
    /\ pc = "idle"
    /\ InsertTarget(table_type) = "_insert_thing"
    /\ \E values \in InsertValues :
        /\ writeCalls' = Append(writeCalls, [api |-> "create_thing",
                                             args |-> CreateThingArgs(values)])
        /\ \/ Returned("insert", values, None, values)
           \/ \E kind \in FaultKinds :
                /\ faults' = faults + 1
                /\ Raised("insert", values, None, "create_thing", kind)
    /\ NoScan

InsertThingType ==
    /\ pc = "idle"
    /\ InsertTarget(table_type) = "_insert_thing_type"
    /\ \E values \in InsertValues :
        Raised("insert", values, None, "_insert_thing_type", "NotImplementedError")
    /\ UNCHANGED <<writeCalls, faults>>
    /\ NoScan

\* no branch of insert matches: the method falls off its end
InsertNone ==
    /\ pc = "idle"
    /\ InsertTarget(table_type) = "none"
    /\ \E values \in InsertValues : Returned("insert", values, None, None)
    /\ UNCHANGED writeCalls
    /\ NoScan

\* variant: the shadow is written whether or not newvalues holds one
UpdateThingCallsAlways(rowid, newvalues) ==
    <<[api |-> "update_thing_shadow",
       args |-> Put(Put(EmptyDict, "thingName", rowid),
                    "payload", Get(newvalues, "thing_shadow_data"))]>>

\* the update_thing_shadow calls of _update_thing
UpdateThingCalls(rowid, newvalues) ==
    IF "thing_shadow_data" \in DOMAIN newvalues
    THEN <<[api |-> "update_thing_shadow",
            args |-> Put(Put(EmptyDict, "thingName", rowid),
                         "payload", Get(newvalues, "thing_shadow_data"))]>>
    ELSE <<>>

\* what _update_thing returns when the call answered with payload (or None)
UpdateThingResult(newvalues, payload) ==
    IF "thing_shadow_data" \in DOMAIN newvalues /\ Truthy(payload)
    THEN Put(newvalues, "thing_shadow_data", payload)
    ELSE newvalues

UpdateThing ==
    /\ pc = "idle"
    /\ UpdateTarget(table_type) = "_update_thing"
    /\ \E rowid \in RowIds, newvalues \in UpdateValues :
        /\ writeCalls' = writeCalls \o UpdateThingCalls(rowid, newvalues)
        /\ IF UpdateThingCalls(rowid, newvalues) = <<>>
           THEN Returned("update", newvalues, rowid, UpdateThingResult(newvalues, None))
           ELSE \/ \E payload \in {AcceptedDoc(Get(newvalues, "thing_shadow_data")), None} :
                     Returned("update", newvalues, rowid,
                              UpdateThingResult(newvalues, payload))
                \/ \E kind \in FaultKinds :
                     /\ faults' = faults + 1
                     /\ Raised("update", newvalues, rowid, "update_thing_shadow", kind)
    /\ NoScan

UpdateThingType ==
    /\ pc = "idle"
    /\ UpdateTarget(table_type) = "_update_thing_type"
    /\ \E rowid \in RowIds, newvalues \in UpdateValues :
        Raised("update", newvalues, rowid, "_update_thing_type", "NotImplementedError")
    /\ UNCHANGED <<writeCalls, faults>>
    /\ NoScan

UpdateNone ==
    /\ pc = "idle"
    /\ UpdateTarget(table_type) = "none"
    /\ \E rowid \in RowIds, newvalues \in UpdateValues :
        Returned("update", newvalues, rowid, None)
    /\ UNCHANGED writeCalls
    /\ NoScan

DeleteThing ==
    /\ pc = "idle"
    /\ DeleteTarget(table_type) = "_delete_thing"
    /\ \E rowid \in RowIds :
        /\ writeCalls' = Append(writeCalls, [api |-> "delete_thing",
                                             args |-> Put(EmptyDict, "thingName", rowid)])
        /\ \/ Returned("delete", EmptyDict, rowid, None)
           \/ \E kind \in FaultKinds :
                /\ faults' = faults + 1
                /\ Raised("delete", EmptyDict, rowid, "delete_thing", kind)
    /\ NoScan

DeleteThingType ==
    /\ pc = "idle"
    /\ DeleteTarget(table_type) = "_delete_thing_type"
    /\ \E rowid \in RowIds :
        Raised("delete", EmptyDict, rowid, "_delete_thing_type", "NotImplementedError")
    /\ UNCHANGED <<writeCalls, faults>>
    /\ NoScan

DeleteNone ==
    /\ pc = "idle"
    /\ DeleteTarget(table_type) = "none"
    /\ \E rowid \in RowIds : Returned("delete", EmptyDict, rowid, None)
    /\ UNCHANGED writeCalls
    /\ NoScan

----
Next ==
    \/ ExecuteThing
    \/ ExecuteThingType
    \/ ExecuteThingGroup
    \/ ListThings
    \/ ListThingTypes
    \/ ListThingGroups
    \/ YieldThingRow
    \/ YieldThingTypeRow
    \/ YieldThingGroupRow
    \/ InsertThing
    \/ InsertThingType
    \/ InsertNone
    \/ UpdateThing
    \/ UpdateThingType
    \/ UpdateNone
    \/ DeleteThing
    \/ DeleteThingType
    \/ DeleteNone

Spec == Init /\ [][Next]_vars

----
\* Properties

ListApis == {"list_things", "list_thing_types", "list_thing_groups"}

\* the filter argument a list call carries: <<v>>, or <<>> when it carries none
FilterOf(call) ==
    IF "thingTypeName" \in DOMAIN call.args THEN <<call.args["thingTypeName"]>>
    ELSE IF "namePrefixFilter" \in DOMAIN call.args
         THEN <<call.args["namePrefixFilter"]>>
         ELSE <<>>

\* identities of the rows yielded so far, in order
RowNames == [i \in DOMAIN rows |-> rows[i][RowIdColumn(table_type)]]

\* items of the first k pages, in registry order
ItemsUpTo(k) == Concat(SubSeq(pages, 1, k))

IsScanOf(target) == op.name = "execute" /\ ExecuteTarget(table_type) = target

\* positions of the predicates on field f with operator o
QualsOn(f, o) ==
    {i \in DOMAIN quals : Lower(quals[i].field_name) = f /\ quals[i].operator = o}

Max(S) == CHOOSE x \in S : \A y \in S : y <= x

\* C1 (as claimed): in a thing-group scan whose only predicate on the group-name
\* field is a LIKE, every list_thing_groups call carries namePrefixFilter equal to
\* the pattern without its trailing wildcard when the pattern has exactly one
\* wildcard and has it last, and carries no filter for any other pattern.
C1_LikePrefixPushdown ==
    IsScanOf("_execute_thing_group") =>
        \A i \in QualsOn(f_thing_group_name, "~~") :
            (QualsOn(f_thing_group_name, "=") = {}
             /\ QualsOn(f_thing_group_name, "~~") = {i}) =>
                \A c \in DOMAIN listCalls :
                    IF /\ Count(quals[i].value, LIKE_WILDCARD) = 1
                       /\ EndsWith(quals[i].value, LIKE_WILDCARD)
                    THEN FilterOf(listCalls[c]) = <<DropLast(quals[i].value)>>
                    ELSE FilterOf(listCalls[c]) = <<>>

\* C2 (as claimed): in a thing scan, when the predicate set holds an equality
\* predicate on the type-name field every list_things call carries that
\* predicate's value as thingTypeName, and otherwise no call carries a filter.
C2_TypeNameFilterExact ==
    IsScanOf("_execute_thing") =>
        \A c \in DOMAIN listCalls :
            IF QualsOn(f_thing_type_name, "=") # {}
            THEN \E i \in QualsOn(f_thing_type_name, "=") :
                    FilterOf(listCalls[c]) = <<quals[i].value>>
            ELSE FilterOf(listCalls[c]) = <<>>

\* C2 (amended): in a thing scan every list_things call carries as thingTypeName
\* the value of the last equality predicate on the type-name field when that
\* value is not the empty string; when it is empty, or there is no such
\* predicate, no call carries a filter.
C2_TypeNameFilterNonEmpty ==
    IsScanOf("_execute_thing") =>
        \A c \in DOMAIN listCalls :
            LET eqs == QualsOn(f_thing_type_name, "=")
            IN IF eqs # {} /\ quals[Max(eqs)].value # <<>>
               THEN FilterOf(listCalls[c]) = <<quals[Max(eqs)].value>>
               ELSE FilterOf(listCalls[c]) = <<>>

\* a two-page thing scan, drained, under two equality predicates on the
\* type-name field with different values, the filter on both calls
C2_Witness ==
    /\ IsScanOf("_execute_thing")
    /\ pc = "done"
    /\ Len(listCalls) = 2
    /\ QualsOn(f_thing_type_name, "=") = {1, 2}
    /\ quals[1].value # quals[2].value
    /\ quals[1].value # <<>>
    /\ FilterOf(listCalls[1]) = <<quals[2].value>>
    /\ FilterOf(listCalls[2]) = <<quals[2].value>>

\* C3: a scan never calls the list past the last page; the first call carries
\* no cursor and call k > 1 carries the cursor the registry returned with page
\* k - 1; a drained scan has issued exactly one call per page and yielded, in
\* registry order, exactly one row per item of every page.
C3_PaginationDrains ==
    op.name = "execute" =>
        /\ pc \in {"list", "rows"} => Len(listCalls) <= Len(pages)
        /\ pc = "list" => Len(listCalls) < Len(pages)
        /\ \A k \in DOMAIN listCalls :
              /\ k = 1 => "nextToken" \notin DOMAIN listCalls[k].args
              /\ k > 1 => /\ "nextToken" \in DOMAIN listCalls[k].args
                          /\ listCalls[k].args["nextToken"] = Token(k)
        /\ pc = "done" => /\ Len(listCalls) = Len(pages)
                          /\ RowNames = ItemsUpTo(Len(pages))

\* a drained thing scan of at least two pages and three items
C3_Witness ==
    /\ IsScanOf("_execute_thing")
    /\ pc = "done"
    /\ Len(listCalls) >= 2
    /\ Len(rows) >= 3
    /\ RowNames = ItemsUpTo(Len(pages))

\* rows yielded for the thing called name
RowsOf(name) == {j \in DOMAIN rows : rows[j][RowIdColumn(table_type)] = name}

\* C4 (as claimed): after a get_thing_shadow call failed with a ClientError, the
\* row of that thing has been yielded and has no thing_shadow_data key.
C4_ShadowFailureLeavesKeyAbsent ==
    IsScanOf("_execute_thing") =>
        \A i \in DOMAIN shadowLog :
            shadowLog[i].outcome = "ClientError" =>
                \E j \in RowsOf(shadowLog[i].thing) :
                    "thing_shadow_data" \notin DOMAIN rows[j]

\* C4 (amended): after a get_thing_shadow call failed with a ClientError, the row
\* of that thing has been yielded with its thing_shadow_data key present and
\* holding None; the failure is not raised to the host; the rows of the things
\* whose shadow was read carry the document; and a drained scan has yielded one
\* row per item of every page.
C4_ShadowFailureIsolated ==
    IsScanOf("_execute_thing") =>
        /\ \A i \in DOMAIN shadowLog :
              /\ shadowLog[i].outcome = "ClientError" =>
                    \E j \in RowsOf(shadowLog[i].thing) :
                        /\ "thing_shadow_data" \in DOMAIN rows[j]
                        /\ rows[j]["thing_shadow_data"] = None
              /\ shadowLog[i].outcome = "payload" =>
                    \E j \in RowsOf(shadowLog[i].thing) :
                        /\ "thing_shadow_data" \in DOMAIN rows[j]
                        /\ rows[j]["thing_shadow_data"] = ShadowDoc(shadowLog[i].thing)
        /\ error.src = "get_thing_shadow" =>
              shadowLog[Len(shadowLog)].outcome = "Exception"
        /\ pc = "done" => RowNames = ItemsUpTo(Len(pages))

\* a drained thing scan in which a shadow lookup failed with a ClientError and
\* a later thing's shadow was read
C4_Witness ==
    /\ IsScanOf("_execute_thing")
    /\ pc = "done"
    /\ Len(rows) = Len(shadowLog)
    /\ \E i, j \in DOMAIN shadowLog :
          /\ i < j
          /\ shadowLog[i].outcome = "ClientError"
          /\ shadowLog[j].outcome = "payload"
          /\ rows[j]["thing_shadow_data"] = ShadowDoc(shadowLog[j].thing)

\* C5 (as claimed): when a primary list call has failed, no row of the query has
\* been yielded.
C5_NoRowsBeforeListError ==
    error.src \in ListApis => rows = <<>>

\* C5 (amended): when a primary list call has failed, the query has ended with
\* the error raised to the host, the failed call is the last list call issued,
\* nothing was returned, and the rows yielded are exactly the rows of the pages
\* fetched before the failing call (none when the first call failed).
C5_ListFailureAborts ==
    error.src \in ListApis =>
        /\ pc = "error"
        /\ error.call = Len(listCalls)
        /\ ret = <<>>
        /\ RowNames = ItemsUpTo(error.call - 1)

\* the second list call of a thing scan failed after the rows of the first page
C5_Witness ==
    /\ IsScanOf("_execute_thing")
    /\ pc = "error"
    /\ error.src = "list_things"
    /\ error.call = 2
    /\ Len(rows) = MaxPageLen

\* C6 (as claimed): insert on the thing kind has issued exactly one create_thing
\* call, with the thing_name of the values as thingName and, when the values
\* hold a thing_type_name, with it as thingTypeName; it returns the values.
C6_InsertPassesTypeName ==
    (op.name = "insert" /\ InsertTarget(table_type) = "_insert_thing") =>
        /\ Len(writeCalls) = 1
        /\ writeCalls[1].api = "create_thing"
        /\ writeCalls[1].args["thingName"] = Get(op.values, "thing_name")
        /\ Truthy(Get(op.values, "thing_type_name")) =>
              /\ "thingTypeName" \in DOMAIN writeCalls[1].args
              /\ writeCalls[1].args["thingTypeName"] = op.values["thing_type_name"]
        /\ pc = "returned" => ret = <<op.values>>

\* C7: no secondary lookup is issued for a column that was not requested (none
\* at all when only the identity column is requested, and none outside a thing
\* scan), and every key of every row is the identity column or a requested one.
C7_ColumnGating ==
    op.name = "execute" =>
        /\ ("thing_groups" \notin columns \/ ~IsScanOf("_execute_thing")) =>
              groupCalls = <<>>
        /\ ("thing_shadow_data" \notin columns \/ ~IsScanOf("_execute_thing")) =>
              shadowCalls = <<>>
        /\ \A j \in DOMAIN rows :
              DOMAIN rows[j] \subseteq columns \cup {RowIdColumn(table_type)}

\* a drained thing scan of two pages and at least three things that requested
\* only the identity column
C7_Witness ==
    /\ IsScanOf("_execute_thing")
    /\ columns = {"thing_name"}
    /\ pc = "done"
    /\ Len(listCalls) >= 2
    /\ Len(rows) >= 3
    /\ groupCalls = <<>>
    /\ shadowCalls = <<>>
    /\ \A j \in DOMAIN rows : DOMAIN rows[j] = {"thing_name"}

\* C8: update on the thing kind without a thing_shadow_data key returns the new
\* values as they are and issues no write call; with the key it issues exactly
\* one update_thing_shadow call, for rowid and the submitted document, and what
\* it returns has the keys of the new values and their values for every key
\* other than thing_shadow_data.
C8_UpdateFrame ==
    (op.name = "update" /\ UpdateTarget(table_type) = "_update_thing") =>
        IF "thing_shadow_data" \notin DOMAIN op.values
        THEN /\ writeCalls = <<>>
             /\ pc = "returned"
             /\ ret = <<op.values>>
        ELSE /\ Len(writeCalls) = 1
             /\ writeCalls[1].api = "update_thing_shadow"
             /\ writeCalls[1].args["thingName"] = op.rowid
             /\ writeCalls[1].args["payload"] = op.values["thing_shadow_data"]
             /\ pc = "returned" =>
                   /\ DOMAIN ret[1] = DOMAIN op.values
                   /\ \A k \in DOMAIN op.values \ {"thing_shadow_data"} :
                         ret[1][k] = op.values[k]

\* an update of two non-shadow fields has returned
C8_Witness ==
    /\ op.name = "update"
    /\ UpdateTarget(table_type) = "_update_thing"
    /\ DOMAIN op.values = {"thing_name", "thing_arn"}
    /\ pc = "returned"
    /\ ret = <<op.values>>
    /\ writeCalls = <<>>

\* C9: insert, update and delete on the thing-type kind end with
\* NotImplementedError raised, no call to the registry and nothing returned.
C9_ThingTypeMutationsNotImplemented ==
    (Lower(table_type) = thing_type /\ op.name \in {"insert", "update", "delete"}) =>
        /\ pc = "error"
        /\ error.kind = "NotImplementedError"
        /\ writeCalls = <<>>
        /\ listCalls = <<>>
        /\ groupCalls = <<>>
        /\ shadowCalls = <<>>
        /\ ret = <<>>

\* delete was invoked on the thing-type kind
C9_Witness ==
    /\ Lower(table_type) = thing_type
    /\ op.name = "delete"
    /\ pc = "error"
    /\ error.src = "_delete_thing_type"

\* C10 (as claimed): every list call of a scan carries the filter argument of
\* the first call of that scan.
C10_FilterFixed ==
    op.name = "execute" =>
        \A c \in DOMAIN listCalls : FilterOf(listCalls[c]) = FilterOf(listCalls[1])

====
